---- MODULE Spec2Model ----
(***************************************************************************)
(* Model of src/config.rs of belabot: the Settings record, its JSON file,  *)
(* Settings::load, the interactive Settings::ask_for_settings, and the two *)
(* transformations lowercase_settings and default_chat_commands.           *)
(*                                                                         *)
(* Strings that the code lowercases or splits are sequences of one-letter  *)
(* strings.  A behaviour is one process calling one entry point on a file  *)
(* system drawn from a bounded set of contents.                            *)
(***************************************************************************)
EXTENDS Integers, Sequences, FiniteSets, TLC

VARIABLES fs, before, pc, locals, log, result, hist, applied

vars == <<fs, before, pc, locals, log, result, hist, applied>>

(***************************************************************************)
(* Bounds                                                                  *)
(***************************************************************************)
MaxAdmins == 1
MaxSegs == 3
MaxApply == 2

(***************************************************************************)
(* Strings                                                                 *)
(***************************************************************************)
Upper == <<"A","B","C","D","E","F","G","H","I","J","K","L","M",
           "N","O","P","Q","R","S","T","U","V","W","X","Y","Z">>
Lower == <<"a","b","c","d","e","f","g","h","i","j","k","l","m",
           "n","o","p","q","r","s","t","u","v","w","x","y","z">>

char_to_lowercase(c) ==
    IF \E i \in 1..Len(Upper) : Upper[i] = c
    THEN Lower[CHOOSE i \in 1..Len(Upper) : Upper[i] = c]
    ELSE c

char_swapcase(c) ==
    IF \E i \in 1..Len(Upper) : Upper[i] = c
    THEN Lower[CHOOSE i \in 1..Len(Upper) : Upper[i] = c]
    ELSE IF \E i \in 1..Len(Lower) : Lower[i] = c
         THEN Upper[CHOOSE i \in 1..Len(Lower) : Lower[i] = c]
         ELSE c

RECURSIVE to_lowercase_swapcase(_)
to_lowercase_swapcase(s) ==
    IF s = <<>> THEN <<>>
    ELSE <<char_swapcase(Head(s))>> \o to_lowercase_swapcase(Tail(s))

RECURSIVE to_lowercase(_)
to_lowercase(s) ==
    IF s = <<>> THEN <<>>
    ELSE <<char_to_lowercase(Head(s))>> \o to_lowercase(Tail(s))

(***************************************************************************)
(* Data model                                                              *)
(***************************************************************************)
CONFIG_FILE_NAME == "config.json"

BotCommand ==
    {"Bitrate", "Network", "Poweroff", "Restart", "Sensor", "Start", "Stats", "Stop"}

Permission == {"Broadcaster", "Moderator", "Vip", "Public"}

CommandInformation(command, permission) ==
    [command |-> command, permission |-> permission]

MonitorDefault == [modems |-> TRUE, notifications |-> TRUE]

EmptyMap == [x \in {} |-> x]

BelaboxDefault ==
    [remote_key |-> <<>>, custom_interface_name |-> EmptyMap, monitor |-> MonitorDefault]

(***************************************************************************)
(* lowercase_settings                                                      *)
(***************************************************************************)
RECURSIVE lowercase_each(_)
lowercase_each(admins) ==
    IF admins = <<>> THEN <<>>
    ELSE <<to_lowercase(Head(admins))>> \o lowercase_each(Tail(admins))

lowercase_settings_skips_admins(settings) ==
    [settings EXCEPT
        !.twitch = [bot_username |-> to_lowercase(@.bot_username),
                    bot_oauth    |-> to_lowercase(@.bot_oauth),
                    channel      |-> to_lowercase(@.channel),
                    admins       |-> @.admins],
        !.commands = [k \in DOMAIN @ |->
                        [command |-> to_lowercase(@[k].command),
                         permission |-> @[k].permission]]]

lowercase_settings(settings) ==
    [settings EXCEPT
        !.twitch = [bot_username |-> to_lowercase(@.bot_username),
                    bot_oauth    |-> to_lowercase(@.bot_oauth),
                    channel      |-> to_lowercase(@.channel),
                    admins       |-> lowercase_each(@.admins)],
        !.commands = [k \in DOMAIN @ |->
                        [command |-> to_lowercase(@[k].command),
                         permission |-> @[k].permission]]]

(***************************************************************************)
(* default_chat_commands                                                   *)
(***************************************************************************)
or_insert_overwrites(commands, k, v) ==
    [x \in (DOMAIN commands) \cup {k} |-> IF x = k THEN v ELSE commands[x]]

or_insert(commands, k, v) ==
    IF k \in DOMAIN commands
    THEN commands
    ELSE [x \in (DOMAIN commands) \cup {k} |-> IF x = k THEN v ELSE commands[x]]

default_chat_commands_without_network(commands) ==
    LET c1 == or_insert(commands, "Start",
                  CommandInformation(<<"!","b","b","s","t","a","r","t">>, "Broadcaster"))
        c2 == or_insert(c1, "Stop",
                  CommandInformation(<<"!","b","b","s","t","o","p">>, "Broadcaster"))
        c3 == or_insert(c2, "Stats",
                  CommandInformation(<<"!","b","b","s">>, "Public"))
        c4 == or_insert(c3, "Restart",
                  CommandInformation(<<"!","b","b","r","s">>, "Broadcaster"))
        c5 == or_insert(c4, "Poweroff",
                  CommandInformation(<<"!","b","b","p","o">>, "Broadcaster"))
        c6 == or_insert(c5, "Bitrate",
                  CommandInformation(<<"!","b","b","b">>, "Broadcaster"))
        c7 == or_insert(c6, "Sensor",
                  CommandInformation(<<"!","b","b","s","e","n","s","o","r">>, "Public"))
    IN  c7

default_chat_commands_uppercase_start(commands) ==
    LET c1 == or_insert(commands, "Start",
                  CommandInformation(<<"!","B","B","s","t","a","r","t">>, "Broadcaster"))
        c2 == or_insert(c1, "Stop",
                  CommandInformation(<<"!","b","b","s","t","o","p">>, "Broadcaster"))
        c3 == or_insert(c2, "Stats",
                  CommandInformation(<<"!","b","b","s">>, "Public"))
        c4 == or_insert(c3, "Restart",
                  CommandInformation(<<"!","b","b","r","s">>, "Broadcaster"))
        c5 == or_insert(c4, "Poweroff",
                  CommandInformation(<<"!","b","b","p","o">>, "Broadcaster"))
        c6 == or_insert(c5, "Bitrate",
                  CommandInformation(<<"!","b","b","b">>, "Broadcaster"))
        c7 == or_insert(c6, "Sensor",
                  CommandInformation(<<"!","b","b","s","e","n","s","o","r">>, "Public"))
        c8 == or_insert(c7, "Network",
                  CommandInformation(<<"!","b","b","t">>, "Broadcaster"))
    IN  c8

default_chat_commands(commands) ==
    LET c1 == or_insert(commands, "Start",
                  CommandInformation(<<"!","b","b","s","t","a","r","t">>, "Broadcaster"))
        c2 == or_insert(c1, "Stop",
                  CommandInformation(<<"!","b","b","s","t","o","p">>, "Broadcaster"))
        c3 == or_insert(c2, "Stats",
                  CommandInformation(<<"!","b","b","s">>, "Public"))
        c4 == or_insert(c3, "Restart",
                  CommandInformation(<<"!","b","b","r","s">>, "Broadcaster"))
        c5 == or_insert(c4, "Poweroff",
                  CommandInformation(<<"!","b","b","p","o">>, "Broadcaster"))
        c6 == or_insert(c5, "Bitrate",
                  CommandInformation(<<"!","b","b","b">>, "Broadcaster"))
        c7 == or_insert(c6, "Sensor",
                  CommandInformation(<<"!","b","b","s","e","n","s","o","r">>, "Public"))
        c8 == or_insert(c7, "Network",
                  CommandInformation(<<"!","b","b","t">>, "Broadcaster"))
    IN  c8

(***************************************************************************)
(* JSON documents.  serde writes a HashMap as a JSON object: a set of      *)
(* members, one per key, in no fixed order.  A file holds no text          *)
(* (Absent), text that is not JSON (Invalid), or a JSON document.          *)
(***************************************************************************)
Absent == [kind |-> "Absent"]
Invalid == [kind |-> "Invalid"]
JsonFile(doc) == [kind |-> "Json", doc |-> doc]

to_string_pretty(settings) ==
    [belabox  |-> settings.belabox,
     twitch   |-> settings.twitch,
     commands |-> {[key |-> k,
                    command |-> settings.commands[k].command,
                    permission |-> settings.commands[k].permission] :
                        k \in DOMAIN settings.commands}]

Err == [ok |-> FALSE]
Ok(value) == [ok |-> TRUE, value |-> value]

\* #[serde(default)] on Belabox: absent fields take the Default value.
belabox_from_value(b) ==
    [remote_key |-> IF "remote_key" \in DOMAIN b
                    THEN b.remote_key ELSE BelaboxDefault.remote_key,
     custom_interface_name |-> IF "custom_interface_name" \in DOMAIN b
                    THEN b.custom_interface_name
                    ELSE BelaboxDefault.custom_interface_name,
     monitor |-> IF "monitor" \in DOMAIN b THEN b.monitor ELSE MonitorDefault]

\* Settings, Twitch and CommandInformation have no serde default: every
\* field is required; a map key must be a BotCommand variant.
from_str(file) ==
    IF file.kind # "Json" THEN Err
    ELSE LET doc == file.doc IN
         IF ~ ({"belabox", "twitch", "commands"} \subseteq DOMAIN doc) THEN Err
         ELSE IF ~ ({"bot_username", "bot_oauth", "channel", "admins"}
                        \subseteq DOMAIN doc.twitch) THEN Err
         ELSE IF \E m \in doc.commands :
                    \/ m.key \notin BotCommand
                    \/ m.permission \notin Permission THEN Err
         ELSE Ok([belabox  |-> belabox_from_value(doc.belabox),
                  twitch   |-> [bot_username |-> doc.twitch.bot_username,
                                bot_oauth    |-> doc.twitch.bot_oauth,
                                channel      |-> doc.twitch.channel,
                                admins       |-> doc.twitch.admins],
                  commands |-> [k \in {m.key : m \in doc.commands} |->
                                  LET member == CHOOSE m \in doc.commands : m.key = k
                                  IN  CommandInformation(member.command,
                                                         member.permission)]])

(***************************************************************************)
(* std::fs::write opens the file truncating it and then writes: it         *)
(* succeeds ("ok"), fails before the file is touched ("denied"), or fails  *)
(* after the truncation ("truncated").                                     *)
(***************************************************************************)
WriteOutcomes == {"ok", "denied", "truncated"}

fs_write(files, name, doc, w) ==
    CASE w = "ok"        -> [files EXCEPT ![name] = JsonFile(doc)]
      [] w = "denied"    -> files
      [] w = "truncated" -> [files EXCEPT ![name] = Invalid]

(***************************************************************************)
(* Settings::load                                                          *)
(***************************************************************************)
Returned(op, path, outcome) == [op |-> op, path |-> path, outcome |-> outcome]
ReturnedOk(op, path, value) ==
    [op |-> op, path |-> path, outcome |-> "Ok", value |-> value]

load_resets_unparsable_file(path, files, w) ==
    IF files[path].kind = "Absent"
    THEN [files |-> files, ret |-> Returned("load", path, "Io"), events |-> <<>>]
    ELSE LET parsed == from_str(files[path]) IN
         IF ~ parsed.ok
         THEN [files |-> [files EXCEPT ![CONFIG_FILE_NAME] = Invalid],
               ret |-> Returned("load", path, "Json"), events |-> <<"write">>]
         ELSE LET lowered == lowercase_settings(parsed.value)
                  config == [lowered EXCEPT !.commands = default_chat_commands(@)]
              IN  [files  |-> fs_write(files, CONFIG_FILE_NAME, to_string_pretty(config), w),
                   ret    |-> IF w = "ok" THEN ReturnedOk("load", path, config)
                              ELSE Returned("load", path, "Io"),
                   events |-> <<"write">>]

load_writes_back_to_path(path, files, w) ==
    IF files[path].kind = "Absent"
    THEN [files |-> files, ret |-> Returned("load", path, "Io"), events |-> <<>>]
    ELSE LET parsed == from_str(files[path]) IN
         IF ~ parsed.ok
         THEN [files |-> files, ret |-> Returned("load", path, "Json"), events |-> <<>>]
         ELSE LET lowered == lowercase_settings(parsed.value)
                  config == [lowered EXCEPT !.commands = default_chat_commands(@)]
              IN  [files  |-> fs_write(files, path, to_string_pretty(config), w),
                   ret    |-> IF w = "ok" THEN ReturnedOk("load", path, config)
                              ELSE Returned("load", path, "Io"),
                   events |-> <<"write">>]

load(path, files, w) ==
    IF files[path].kind = "Absent"
    THEN [files |-> files, ret |-> Returned("load", path, "Io"), events |-> <<>>]
    ELSE LET parsed == from_str(files[path]) IN
         IF ~ parsed.ok
         THEN [files |-> files, ret |-> Returned("load", path, "Json"), events |-> <<>>]
         ELSE LET lowered == lowercase_settings(parsed.value)
                  config == [lowered EXCEPT !.commands = default_chat_commands(@)]
              IN  [files  |-> fs_write(files, CONFIG_FILE_NAME, to_string_pretty(config), w),
                   ret    |-> IF w = "ok" THEN ReturnedOk("load", path, config)
                              ELSE Returned("load", path, "Io"),
                   events |-> <<"write">>]

(***************************************************************************)
(* str::split and Iterator::nth, as used to extract the remote key         *)
(***************************************************************************)
KeyMarker == <<"?","k","e","y","=">>

find(s, pat) ==
    LET hits == {i \in 1..(Len(s) - Len(pat) + 1) : SubSeq(s, i, i + Len(pat) - 1) = pat}
    IN  IF hits = {} THEN 0 ELSE CHOOSE i \in hits : \A j \in hits : i <= j

split_once(s, pat) ==
    LET i == find(s, pat)
    IN  IF i = 0 THEN <<s>>
        ELSE <<SubSeq(s, 1, i - 1), SubSeq(s, i + Len(pat), Len(s))>>

RECURSIVE split(_, _)
split(s, pat) ==
    LET i == find(s, pat)
    IN  IF i = 0 THEN <<s>>
        ELSE <<SubSeq(s, 1, i - 1)>> \o split(SubSeq(s, i + Len(pat), Len(s)), pat)

None == [some |-> FALSE]
Some(x) == [some |-> TRUE, value |-> x]

nth(pieces, n) == IF n + 1 <= Len(pieces) THEN Some(pieces[n + 1]) ELSE None

(***************************************************************************)
(* Settings::ask_for_settings, from the answer to the last prompt on       *)
(***************************************************************************)
InterfaceNames == [eth0 |-> "eth0", usb0 |-> "usb0", wlan0 |-> "wlan0"]

ask_for_settings_finish_saves_twice(l, files, w, cwd_ok) ==
    LET settings == [belabox  |-> [remote_key |-> l.remote_key,
                                   custom_interface_name |-> InterfaceNames,
                                   monitor |-> MonitorDefault],
                     twitch   |-> [bot_username |-> l.bot_username,
                                   bot_oauth    |-> l.bot_oauth,
                                   channel      |-> l.channel,
                                   admins       |-> <<>>],
                     commands |-> default_chat_commands(EmptyMap)]
        lowered == lowercase_settings(settings)
    IN  [files  |-> fs_write(fs_write(files, CONFIG_FILE_NAME, to_string_pretty(settings), w),
                             CONFIG_FILE_NAME, to_string_pretty(lowered), w),
         ret    |-> IF w = "ok" /\ cwd_ok
                    THEN ReturnedOk("ask_for_settings", CONFIG_FILE_NAME, lowered)
                    ELSE Returned("ask_for_settings", CONFIG_FILE_NAME, "Io"),
         events |-> IF w = "ok" THEN <<"write", "write">> ELSE <<"write">>]

ask_for_settings_finish(l, files, w, cwd_ok) ==
    LET settings == [belabox  |-> [remote_key |-> l.remote_key,
                                   custom_interface_name |-> InterfaceNames,
                                   monitor |-> MonitorDefault],
                     twitch   |-> [bot_username |-> l.bot_username,
                                   bot_oauth    |-> l.bot_oauth,
                                   channel      |-> l.channel,
                                   admins       |-> <<>>],
                     commands |-> default_chat_commands(EmptyMap)]
    IN  [files  |-> fs_write(files, CONFIG_FILE_NAME, to_string_pretty(settings), w),
         ret    |-> IF w = "ok" /\ cwd_ok
                    THEN ReturnedOk("ask_for_settings", CONFIG_FILE_NAME,
                                    lowercase_settings(settings))
                    ELSE Returned("ask_for_settings", CONFIG_FILE_NAME, "Io"),
         events |-> <<"write">>]

(***************************************************************************)
(* Inputs                                                                  *)
(***************************************************************************)
OTHER_PATH == "backup.json"
Paths == {CONFIG_FILE_NAME, OTHER_PATH}

NameInputs == {<<"B","o","t">>, <<"b","o","t">>}
AdminNames == {<<"F","o","o">>, <<"b","a","r">>}

RECURSIVE SeqsUpTo(_, _)
SeqsUpTo(S, n) ==
    IF n = 0 THEN {<<>>}
    ELSE SeqsUpTo(S, n - 1) \cup
         {Append(s, x) : s \in {q \in SeqsUpTo(S, n - 1) : Len(q) = n - 1}, x \in S}

TwitchInputs ==
    {[bot_username |-> u, bot_oauth |-> o, channel |-> c, admins |-> a] :
        u \in NameInputs, o \in NameInputs, c \in NameInputs,
        a \in SeqsUpTo(AdminNames, MaxAdmins)}

SampleTwitch ==
    [bot_username |-> <<"B","o","t">>, bot_oauth |-> <<"O","a","u","t","h",":","x">>,
     channel |-> <<"M","y","C","h","a","n","n","e","l">>,
     admins |-> << <<"F","o","o">> >>]

SampleBelabox ==
    [remote_key |-> <<"K","9">>, custom_interface_name |-> InterfaceNames,
     monitor |-> [modems |-> FALSE, notifications |-> TRUE]]

CustomInfos ==
    {CommandInformation(<<"!","G","o">>, "Moderator"),
     CommandInformation(<<"!","g","o">>, "Vip")}

PureCustomInfos ==
    {CommandInformation(c, p) : c \in {<<"!","G","o">>, <<"!","g","o">>}, p \in Permission}

CommandMaps(infos) ==
    {[k \in D |-> i] : D \in SUBSET BotCommand, i \in infos}

SampleCommands == [k \in {"Start"} |-> CommandInformation(<<"!","G","o">>, "Moderator")]

SettingsOver(twitches, maps) ==
    {[belabox |-> SampleBelabox, twitch |-> t, commands |-> SampleCommands] :
        t \in twitches}
    \cup
    {[belabox |-> SampleBelabox, twitch |-> SampleTwitch, commands |-> m] : m \in maps}

SettingsInputs == SettingsOver(TwitchInputs, CommandMaps(CustomInfos))
PureInputs == SettingsOver(TwitchInputs, CommandMaps(PureCustomInfos))

SampleSettings ==
    [belabox |-> SampleBelabox, twitch |-> SampleTwitch, commands |-> SampleCommands]

\* Documents no serialization produces: a field of Settings missing, a key
\* that is no BotCommand, and a belabox object with no field.
HandWrittenDocs ==
    {[belabox |-> SampleBelabox, twitch |-> SampleTwitch],
     [belabox |-> SampleBelabox, twitch |-> SampleTwitch,
      commands |-> {[key |-> "Dance", command |-> <<"!","d">>, permission |-> "Public"]}],
     [belabox |-> EmptyMap, twitch |-> SampleTwitch,
      commands |-> {[key |-> "Stop", command |-> <<"!","H","a","l","t">>,
                     permission |-> "Vip"]}]}

FileInputs ==
    {Absent, Invalid}
    \cup {JsonFile(to_string_pretty(s)) : s \in SettingsInputs}
    \cup {JsonFile(d) : d \in HandWrittenDocs}

SmallFiles == {Absent, Invalid, JsonFile(to_string_pretty(SampleSettings))}

UrlSegments == {KeyMarker, <<"h">>, <<"?","k">>, <<"K","9">>}

RECURSIVE Concat(_)
Concat(segs) == IF segs = <<>> THEN <<>> ELSE Head(segs) \o Concat(Tail(segs))

UrlInputs == {Concat(segs) : segs \in SeqsUpTo(UrlSegments, MaxSegs)}

FewUrls == {<<"h">> \o KeyMarker \o <<"K","9">>, <<"h","?","k">>}

(***************************************************************************)
(* State                                                                   *)
(*   fs      the files                                                     *)
(*   before  the files when the entry point was called                     *)
(*   pc      where the process is: "idle" before the call, a prompt of the *)
(*           wizard, "returned", "panicked" or "cancelled"                 *)
(*   locals  the wizard's local variables so far                           *)
(*   log     prompts shown and writes attempted by the call                *)
(*   result  the call and what it returned                                 *)
(*   hist, applied  values and functions applied (SpecPure only)           *)
(***************************************************************************)
NoCall == [op |-> "none", path |-> "", outcome |-> "none"]

Init ==
    /\ fs \in {[p \in Paths |-> IF p = q THEN a ELSE b] :
                  q \in Paths, a \in FileInputs, b \in SmallFiles}
    /\ before = fs
    /\ pc = "idle"
    /\ locals = EmptyMap
    /\ log = <<>>
    /\ result = NoCall
    /\ hist = <<>>
    /\ applied = <<>>

Load(path) ==
    /\ pc = "idle"
    /\ \E w \in WriteOutcomes :
          LET r == load(path, fs, w) IN
          /\ fs' = r.files
          /\ result' = r.ret
          /\ log' = r.events
    /\ before' = fs
    /\ pc' = "returned"
    /\ UNCHANGED <<locals, hist, applied>>

AskBegin ==
    /\ pc = "idle"
    /\ pc' = "url"
    /\ before' = fs
    /\ log' = <<"URL: ">>
    /\ result' = Returned("ask_for_settings", CONFIG_FILE_NAME, "pending")
    /\ UNCHANGED <<fs, locals, hist, applied>>

AnswerUrl(url) ==
    /\ pc = "url"
    /\ LET key == nth(split(url, KeyMarker), 1) IN
       IF key.some
       THEN /\ locals' = [url |-> url, remote_key |-> key.value]
            /\ pc' = "bot_username"
            /\ log' = Append(log, "Bot username: ")
            /\ UNCHANGED result
       ELSE /\ locals' = [url |-> url]
            /\ pc' = "panicked"
            /\ result' = Returned("ask_for_settings", CONFIG_FILE_NAME, "Panic")
            /\ UNCHANGED log
    /\ UNCHANGED <<fs, before, hist, applied>>

AnswerBotUsername(name) ==
    /\ pc = "bot_username"
    /\ locals' = [url |-> locals.url, remote_key |-> locals.remote_key,
                  bot_username |-> name]
    /\ pc' = "bot_oauth"
    /\ log' = Append(log, "Bot oauth: ")
    /\ UNCHANGED <<fs, before, result, hist, applied>>

AnswerBotOauth(name) ==
    /\ pc = "bot_oauth"
    /\ locals' = [url |-> locals.url, remote_key |-> locals.remote_key,
                  bot_username |-> locals.bot_username, bot_oauth |-> name]
    /\ pc' = "channel"
    /\ log' = Append(log, "Channel name: ")
    /\ UNCHANGED <<fs, before, result, hist, applied>>

AnswerChannel(name) ==
    /\ pc = "channel"
    /\ \E w \in WriteOutcomes, cwd_ok \in BOOLEAN :
          LET l == [remote_key |-> locals.remote_key,
                    bot_username |-> locals.bot_username,
                    bot_oauth |-> locals.bot_oauth, channel |-> name]
              r == ask_for_settings_finish(l, fs, w, cwd_ok) IN
          /\ fs' = r.files
          /\ result' = r.ret
          /\ log' = log \o r.events
    /\ locals' = EmptyMap
    /\ pc' = "returned"
    /\ UNCHANGED <<before, hist, applied>>

Cancel ==
    /\ pc \in {"url", "bot_username", "bot_oauth", "channel"}
    /\ pc' = "cancelled"
    /\ result' = Returned("ask_for_settings", CONFIG_FILE_NAME, "Cancelled")
    /\ UNCHANGED <<fs, before, locals, log, hist, applied>>

Next ==
    \/ \E path \in Paths : Load(path)
    \/ AskBegin
    \/ \E url \in FewUrls : AnswerUrl(url)
    \/ \E name \in NameInputs : AnswerBotUsername(name)
    \/ \E name \in NameInputs : AnswerBotOauth(name)
    \/ \E name \in NameInputs : AnswerChannel(name)
    \/ Cancel

Spec == Init /\ [][Next]_vars

(***************************************************************************)
(* The wizard alone, over every URL of UrlInputs                           *)
(***************************************************************************)
InitWizard ==
    /\ fs \in {[p \in Paths |-> IF p = CONFIG_FILE_NAME THEN a ELSE Absent] :
                  a \in SmallFiles}
    /\ before = fs
    /\ pc = "idle"
    /\ locals = EmptyMap
    /\ log = <<>>
    /\ result = NoCall
    /\ hist = <<>>
    /\ applied = <<>>

NextWizard ==
    \/ AskBegin
    \/ \E url \in UrlInputs : AnswerUrl(url)
    \/ \E name \in NameInputs : AnswerBotUsername(name)
    \/ \E name \in NameInputs : AnswerBotOauth(name)
    \/ \E name \in NameInputs : AnswerChannel(name)
    \/ Cancel

SpecWizard == InitWizard /\ [][NextWizard]_vars

(***************************************************************************)
(* The two transformations as functions: hist[1] is the argument and       *)
(* hist[i+1] the value after applying applied[i] to hist[i]                *)
(***************************************************************************)
InitPure ==
    /\ hist \in {<<s>> : s \in PureInputs}
    /\ applied = <<>>
    /\ fs = [p \in Paths |-> Absent]
    /\ before = fs
    /\ pc = "pure"
    /\ locals = EmptyMap
    /\ log = <<>>
    /\ result = NoCall

ApplyLowercaseSettings ==
    /\ pc = "pure"
    /\ Len(applied) < MaxApply
    /\ hist' = Append(hist, lowercase_settings(hist[Len(hist)]))
    /\ applied' = Append(applied, "lowercase_settings")
    /\ UNCHANGED <<fs, before, pc, locals, log, result>>

ApplyDefaultChatCommands ==
    /\ pc = "pure"
    /\ Len(applied) < MaxApply
    /\ hist' = Append(hist, [hist[Len(hist)] EXCEPT
                                !.commands = default_chat_commands(@)])
    /\ applied' = Append(applied, "default_chat_commands")
    /\ UNCHANGED <<fs, before, pc, locals, log, result>>

NextPure == ApplyLowercaseSettings \/ ApplyDefaultChatCommands

SpecPure == InitPure /\ [][NextPure]_vars

(***************************************************************************)
(* Properties                                                              *)
(***************************************************************************)
IsLowercase(s) == \A i \in 1..Len(s) : \A j \in 1..Len(Upper) : s[i] # Upper[j]

IsNormalized(settings) ==
    /\ IsLowercase(settings.twitch.channel)
    /\ IsLowercase(settings.twitch.bot_username)
    /\ IsLowercase(settings.twitch.bot_oauth)
    /\ \A i \in 1..Len(settings.twitch.admins) : IsLowercase(settings.twitch.admins[i])
    /\ \A k \in DOMAIN settings.commands : IsLowercase(settings.commands[k].command)

EightCommands ==
    {"Bitrate", "Network", "Poweroff", "Restart", "Sensor", "Start", "Stats", "Stop"}

Succeeded == pc = "returned" /\ result.outcome = "Ok"

LoadReturned == pc = "returned" /\ result.op = "load"

\* C1: after every successful load and every successful ask_for_settings,
\* config.json holds exactly the returned record, and that record is
\* lowercased and has all 8 commands.
C1_FileHoldsReturnedRecord ==
    Succeeded =>
        /\ fs[CONFIG_FILE_NAME] = JsonFile(to_string_pretty(result.value))
        /\ IsNormalized(result.value)
        /\ DOMAIN result.value.commands = EightCommands

\* C2: the commands map returned by a successful load or bootstrap has
\* exactly the 8 keys Bitrate, Network, Poweroff, Restart, Sensor, Start,
\* Stats, Stop, whatever map the file held.
C2_ExactlyEightCommands ==
    Succeeded => DOMAIN result.value.commands = EightCommands

\* A successful load of a file whose command map is partial: not empty, not
\* complete.
C2_Witness ==
    /\ LoadReturned
    /\ result.outcome = "Ok"
    /\ Cardinality(before[result.path].doc.commands) \in 1..7

\* The catalogue of defaults as the specification lists it.
DefaultCatalogue ==
    [k \in EightCommands |->
        CASE k = "Start"    -> CommandInformation(<<"!","b","b","s","t","a","r","t">>, "Broadcaster")
          [] k = "Stop"     -> CommandInformation(<<"!","b","b","s","t","o","p">>, "Broadcaster")
          [] k = "Stats"    -> CommandInformation(<<"!","b","b","s">>, "Public")
          [] k = "Restart"  -> CommandInformation(<<"!","b","b","r","s">>, "Broadcaster")
          [] k = "Poweroff" -> CommandInformation(<<"!","b","b","p","o">>, "Broadcaster")
          [] k = "Bitrate"  -> CommandInformation(<<"!","b","b","b">>, "Broadcaster")
          [] k = "Sensor"   -> CommandInformation(<<"!","b","b","s","e","n","s","o","r">>, "Public")
          [] k = "Network"  -> CommandInformation(<<"!","b","b","t">>, "Broadcaster")]

\* C3: default_chat_commands is insert-if-absent per key: a key present
\* before the call keeps its trigger and permission, a key absent before the
\* call gets exactly its catalogue default.
C3_InsertIfAbsent ==
    \A i \in 1..Len(applied) :
        applied[i] = "default_chat_commands" =>
            \A k \in EightCommands :
                /\ k \in DOMAIN hist[i + 1].commands
                /\ hist[i + 1].commands[k] =
                      IF k \in DOMAIN hist[i].commands
                      THEN hist[i].commands[k]
                      ELSE DefaultCatalogue[k]

\* default_chat_commands applied to a map with a customized Start and no
\* Network entry.
C3_Witness ==
    /\ Len(applied) >= 1
    /\ applied[1] = "default_chat_commands"
    /\ "Start" \in DOMAIN hist[1].commands
    /\ hist[1].commands["Start"] # DefaultCatalogue["Start"]
    /\ "Network" \notin DOMAIN hist[1].commands

\* C4: in the record returned by a successful load or bootstrap the channel,
\* the bot username, the bot oauth, every admin and every command trigger
\* are lowercase.
C4_ReturnedRecordLowercase ==
    Succeeded => IsNormalized(result.value)

\* A successful load of a file with an admin and a command trigger that are
\* not lowercase.
C4_Witness ==
    /\ LoadReturned
    /\ result.outcome = "Ok"
    /\ \E i \in 1..Len(before[result.path].doc.twitch.admins) :
          ~ IsLowercase(before[result.path].doc.twitch.admins[i])
    /\ \E m \in before[result.path].doc.commands : ~ IsLowercase(m.command)

\* C5: a load of a path that cannot be read returns Io and a load of a file
\* that does not parse as Settings returns Json; both leave every file as it
\* was.
C5_FailedLoadLeavesFiles ==
    LoadReturned =>
        /\ before[result.path].kind = "Absent" =>
              result.outcome = "Io" /\ fs = before
        /\ (before[result.path].kind # "Absent" /\ ~ from_str(before[result.path]).ok) =>
              result.outcome = "Json" /\ fs = before

\* A load of a file that does not parse, with a valid config.json in place.
C5_Witness ==
    /\ LoadReturned
    /\ result.outcome = "Json"
    /\ result.path # CONFIG_FILE_NAME
    /\ before[CONFIG_FILE_NAME].kind = "Json"
    /\ from_str(before[CONFIG_FILE_NAME]).ok

\* C6: loading a file that is the serialization of a Settings value s
\* returns lowercase_settings applied to s with default_chat_commands
\* applied to its commands.
C6_RoundTrip ==
    (LoadReturned /\ result.outcome = "Ok") =>
        LET parsed == from_str(before[result.path]) IN
        (parsed.ok /\ before[result.path] = JsonFile(to_string_pretty(parsed.value))) =>
            result.value =
                lowercase_settings([parsed.value EXCEPT
                                       !.commands = default_chat_commands(@)])

\* A successful load of a serialized value with a partial command map and a
\* trigger that is not lowercase.
C6_Witness ==
    /\ LoadReturned
    /\ result.outcome = "Ok"
    /\ LET parsed == from_str(before[result.path]) IN
       /\ before[result.path] = JsonFile(to_string_pretty(parsed.value))
       /\ DOMAIN parsed.value.commands # EightCommands
       /\ \E k \in DOMAIN parsed.value.commands :
             ~ IsLowercase(parsed.value.commands[k].command)

\* C7: applying lowercase_settings twice gives what applying it once gives,
\* and the same for default_chat_commands.
C7_Idempotent ==
    \A i \in 1..(Len(applied) - 1) :
        applied[i] = applied[i + 1] => hist[i + 2] = hist[i + 1]

\* lowercase_settings applied twice to a record that the first application
\* changes.
C7_Witness ==
    /\ applied = <<"lowercase_settings", "lowercase_settings">>
    /\ hist[2] # hist[1]

\* The text after the first occurrence of the marker in url (claim side).
MarkerAt(url, i) ==
    /\ i + Len(KeyMarker) - 1 <= Len(url)
    /\ SubSeq(url, i, i + Len(KeyMarker) - 1) = KeyMarker

HasMarker(url) == \E i \in 1..Len(url) : MarkerAt(url, i)

AfterFirstMarker(url) ==
    LET first == CHOOSE i \in 1..Len(url) :
                    /\ MarkerAt(url, i)
                    /\ \A j \in 1..(i - 1) : ~ MarkerAt(url, j)
    IN  SubSeq(url, first + Len(KeyMarker), Len(url))

\* C8 as stated: for every pasted URL containing ?key=, remote_key is the
\* whole text after the first ?key=, also when ?key= occurs again.
C8_KeyIsWholeRest ==
    ("url" \in DOMAIN locals /\ HasMarker(locals.url)) =>
        /\ "remote_key" \in DOMAIN locals
        /\ locals.remote_key = AfterFirstMarker(locals.url)

\* C8 amended: for every pasted URL containing ?key=, remote_key is the text
\* after the first ?key= up to the next ?key=, or to the end of the URL when
\* there is no other.
C8_KeyIsUpToNextMarker ==
    ("url" \in DOMAIN locals /\ HasMarker(locals.url)) =>
        /\ "remote_key" \in DOMAIN locals
        /\ LET rest == AfterFirstMarker(locals.url) IN
           IF HasMarker(rest)
           THEN /\ ~ HasMarker(locals.remote_key)
                /\ Len(locals.remote_key) + Len(KeyMarker) <= Len(rest)
                /\ SubSeq(rest, 1, Len(locals.remote_key) + Len(KeyMarker)) =
                      locals.remote_key \o KeyMarker
           ELSE locals.remote_key = rest

\* A URL with two markers was pasted and the key extracted.
C8_Witness ==
    /\ pc = "bot_username"
    /\ HasMarker(locals.url)
    /\ HasMarker(AfterFirstMarker(locals.url))
    /\ locals.remote_key # <<>>

AllPrompts == <<"URL: ", "Bot username: ", "Bot oauth: ", "Channel name: ">>

Writes == {i \in 1..Len(log) : log[i] = "write"}

\* C9: a run of the wizard writes config.json at most once, and only after
\* the four prompts were shown in the order URL, bot username, bot oauth,
\* channel; a run that stopped earlier has changed no file.
C9_WizardWritesOnceAtEnd ==
    result.op = "ask_for_settings" =>
        /\ Cardinality(Writes) <= 1
        /\ Writes # {} => log = AllPrompts \o <<"write">>
        /\ Writes = {} => /\ fs = before
                          /\ \A i \in 1..Len(log) : log[i] = AllPrompts[i]
        /\ pc \in {"cancelled", "panicked"} => Writes = {} /\ fs = before

\* The wizard ran to its end and replaced a config.json that was there.
C9_Witness ==
    /\ result.op = "ask_for_settings"
    /\ pc = "returned"
    /\ Writes # {}
    /\ before[CONFIG_FILE_NAME].kind = "Json"
    /\ fs[CONFIG_FILE_NAME] # before[CONFIG_FILE_NAME]

\* C10: a successful load writes the returned record to config.json whatever
\* the path, and leaves the file at a different path as it was.
C10_LoadWritesCanonicalFile ==
    (LoadReturned /\ result.outcome = "Ok") =>
        /\ fs[CONFIG_FILE_NAME] = JsonFile(to_string_pretty(result.value))
        /\ \A p \in Paths : p # CONFIG_FILE_NAME => fs[p] = before[p]

\* A successful load of the other path that changed config.json.
C10_Witness ==
    /\ LoadReturned
    /\ result.outcome = "Ok"
    /\ result.path = OTHER_PATH
    /\ before[CONFIG_FILE_NAME].kind = "Json"
    /\ fs[CONFIG_FILE_NAME] # before[CONFIG_FILE_NAME]
    /\ fs[OTHER_PATH] # fs[CONFIG_FILE_NAME]

====
